---- MODULE Spec2Model ----
(***************************************************************************)
(* Model of the can editor of src/src/app/page.tsx: the Page component's   *)
(* settings state, its handlers, and the render of EditableSodaCan (seam   *)
(* geometry, clip planes, metal materials, placed meshes).                 *)
(*                                                                         *)
(* Numbers.  The code computes in IEEE doubles; the model computes in      *)
(* exact decimal fixed point: a real x is carried as the integer x * One.  *)
(* Every literal of the code and every input the model enumerates is a     *)
(* multiple of 1/One whose products stay multiples of 1/One, so Mul and    *)
(* Div below are exact on every value the model reaches.                   *)
(***************************************************************************)
EXTENDS Integers, Sequences, FiniteSets, TLC

\* fixed-point resolution: 1.0 is carried as One
One == 10 * 1000

\* the decimal literal n/d
Dec(n, d) == (n * One) \div d
\* a * b and a / b on fixed-point numbers
Mul(a, b) == (a * b) \div One
Div(a, b) == (a * One) \div b

-----------------------------------------------------------------------------
(* Bounds of the model *)

\* label-band extents: min in -MaxExtent..0, max in 1..MaxExtent (whole units)
MaxExtent == 2

\* handler calls explored in one session
MaxSteps == 4

-----------------------------------------------------------------------------
(* Program constants *)

\* "#ffffff", "#c7c7c7" and "#bbbbbb" as 0xRRGGBB
HexWhite == 16777215
HexC7 == 13092807
HexBB == 12303291
\* "#b8b8b8" as 0xRRGGBB
HexB8 == 12105912

CanSizes == {"355ml", "475ml"}
Parts == {"top", "bottom"}

\* the values updateMetalSetting is called with, per key.  The handler takes
\* any key of MetalPartSettings and any value and validates nothing; the
\* sidebar's sliders deliver values inside their ranges and there is no
\* control for envMapIntensity.  Each set holds both defaults; roughness
\* also a negative value and emissiveIntensity one beyond its slider, which
\* the handler and the render accept like any other number.
MetalValues ==
  [ color             |-> {HexWhite, HexC7},
    brightness        |-> {Dec(135, 100), Dec(140, 100)},
    roughness         |-> {Dec(48, 100), Dec(46, 100), 0 - Dec(25, 100)},
    emissiveIntensity |-> {Dec(1, 100), Dec(250, 100)},
    castShadow        |-> BOOLEAN,
    receiveShadow     |-> BOOLEAN,
    envMapIntensity   |-> {Dec(140, 100), Dec(150, 100)} ]

MetalKeys == DOMAIN MetalValues

\* useState initializer of metalSettings, repeated in resetToDefault
DefaultMetalSettings ==
  [ top    |-> [ color |-> HexWhite, brightness |-> Dec(135, 100),
                 roughness |-> Dec(48, 100), emissiveIntensity |-> Dec(1, 100),
                 castShadow |-> FALSE, receiveShadow |-> TRUE,
                 envMapIntensity |-> Dec(140, 100) ],
    bottom |-> [ color |-> HexWhite, brightness |-> Dec(140, 100),
                 roughness |-> Dec(46, 100), emissiveIntensity |-> Dec(1, 100),
                 castShadow |-> FALSE, receiveShadow |-> TRUE,
                 envMapIntensity |-> Dec(150, 100) ] ]

-----------------------------------------------------------------------------
(* EditableSodaCan: seam geometry *)

\* const uniformScale = 2.0
uniformScale == Dec(2, 1)

\* const sy = canSize === "475ml" ? 3.0 / 2.5 : 1.0
sy(size) == IF size = "475ml" THEN Div(Dec(3, 1), Dec(25, 10)) ELSE Dec(1, 1)

bodyHeight(minY, maxY) == maxY - minY

\* mutant: the epsilon applied at the base size too (>= for >)
seamTopLocal_GeOne(s, h) == IF s >= One THEN Mul(h, Dec(3, 1000)) ELSE 0

\* mutant: 0.7 for 0.007
seamBottomLocal_Tenths(s, h) == IF s > One THEN Mul(h, Dec(7, 10)) ELSE 0

\* const seamTopLocal = sy > 1 ? bodyHeight * 0.003 : 0, and seamBottomLocal
seamTopLocal(s, h) == IF s > One THEN Mul(h, Dec(3, 1000)) ELSE 0
seamBottomLocal(s, h) == IF s > One THEN Mul(h, Dec(7, 1000)) ELSE 0

offsetCoreLocal(s, h) == Mul(h \div 2, s - One)

\* mutant: the epsilon pushes the cap outward (sign slip)
topOffsetLocal_Plus(core, seamTop) == core + seamTop

topOffsetLocal(core, seamTop) == core - seamTop
bottomOffsetLocal(core, seamBottom) == core - seamBottom

\* mutant: the world boundary without the stretch
newMaxWorld_NoStretch(maxY, s) == Mul(maxY, uniformScale)

\* the clip boundaries in world units
newMinWorld(minY, s) == Mul(Mul(minY, s), uniformScale)
newMaxWorld(maxY, s) == Mul(Mul(maxY, s), uniformScale)
\* mutant: the world epsilon without the stretch
seamTopWorld_NoStretch(seamTop, s) == Mul(seamTop, uniformScale)

seamTopWorld(seamTop, s) == Mul(Mul(seamTop, s), uniformScale)
seamBottomWorld(seamBottom, s) == Mul(Mul(seamBottom, s), uniformScale)

-----------------------------------------------------------------------------
(* EditableSodaCan: clip planes *)

\* THREE.Plane(normal, constant) with normal (0, normalY, 0)
planeKeepYGreaterEq(y) == [normalY |-> 1, constant |-> 0 - y]
\* mutant: the constant negated as in planeKeepYGreaterEq
planeKeepYLessEq_NegConstant(y) == [normalY |-> -1, constant |-> 0 - y]

planeKeepYLessEq(y) == [normalY |-> -1, constant |-> y]

\* a clipping plane keeps the points whose signed distance
\* normal . p + constant is not negative
Keeps(plane, y) == plane.normalY * y + plane.constant >= 0

topPlane(maxWorld, seamTopW) == planeKeepYGreaterEq(maxWorld - seamTopW)
bottomPlane(minWorld, seamBottomW) == planeKeepYLessEq(minWorld + seamBottomW)
\* mutant: newMinWorld and newMaxWorld mixed up
bodyPlanes_MinMaxMixed(minWorld, maxWorld, seamTopW, seamBottomW) ==
  << planeKeepYGreaterEq(maxWorld - seamBottomW),
     planeKeepYLessEq(minWorld + seamTopW) >>

bodyPlanes(minWorld, maxWorld, seamTopW, seamBottomW) ==
  << planeKeepYGreaterEq(minWorld - seamBottomW),
     planeKeepYLessEq(maxWorld + seamTopW) >>

-----------------------------------------------------------------------------
(* EditableSodaCan: materials *)

\* new THREE.Color(hex): the three channel bytes of 0xRRGGBB, each standing
\* for byte / 255 (the library's per-channel color-space transfer is not
\* modelled: it acts on each channel alone and on every material alike)
Color(hex) ==
  [ r |-> (hex \div 65536) % 256, g |-> (hex \div 256) % 256, b |-> hex % 256 ]

\* c.multiplyScalar(b): channel * b; the result carries channel * b * One / 255
colorWithBrightness(hex, b) ==
  LET c == Color(hex) IN [ r |-> c.r * b, g |-> c.g * b, b |-> c.b * b ]

\* mutant: top + bottom / 2 (missing parentheses)
Mean_Precedence(a, b) == a + (b \div 2)
\* (top + bottom) / 2
Mean(a, b) == (a + b) \div 2

\* mutant: the body's roughness taken from the top cap alone
bodyCfg_TopRoughness(ms) ==
  [ color             |-> HexBB,
    brightness        |-> (ms.top.brightness + ms.bottom.brightness) \div 2,
    roughness         |-> ms.top.roughness,
    emissiveIntensity |-> (ms.top.emissiveIntensity + ms.bottom.emissiveIntensity) \div 2,
    castShadow        |-> FALSE,
    receiveShadow     |-> TRUE,
    envMapIntensity   |-> (ms.top.envMapIntensity + ms.bottom.envMapIntensity) \div 2 ]

\* the object literal makeMetalMat builds for part = "body"
bodyCfg(ms) ==
  [ color             |-> HexBB,
    brightness        |-> Mean(ms.top.brightness, ms.bottom.brightness),
    roughness         |-> Mean(ms.top.roughness, ms.bottom.roughness),
    emissiveIntensity |-> Mean(ms.top.emissiveIntensity, ms.bottom.emissiveIntensity),
    castShadow        |-> FALSE,
    receiveShadow     |-> TRUE,
    envMapIntensity   |-> Mean(ms.top.envMapIntensity, ms.bottom.envMapIntensity) ]

makeMetalMat(planes, part, ms) ==
  LET cfg == IF part = "top" THEN ms.top
             ELSE IF part = "bottom" THEN ms.bottom
             ELSE bodyCfg(ms)
  IN [ roughness         |-> cfg.roughness,
       metalness         |-> One,
       color             |-> colorWithBrightness(cfg.color, cfg.brightness),
       emissive          |-> Color(HexWhite),
       emissiveIntensity |-> cfg.emissiveIntensity,
       envMapIntensity   |-> cfg.envMapIntensity,
       clippingPlanes    |-> planes,
       clipShadows       |-> TRUE ]

\* the <mesh> elements of the returned group
topMesh(ms, mat, topOffset) ==
  [ castShadow |-> ms.top.castShadow, receiveShadow |-> ms.top.receiveShadow,
    material |-> mat, positionY |-> topOffset, scaleY |-> One ]
\* mutant: the body mesh takes castShadow: false of its cfg
bodyMesh_CfgShadow(mat, s) ==
  [ castShadow |-> FALSE, receiveShadow |-> TRUE,
    material |-> mat, positionY |-> 0, scaleY |-> s ]

bodyMesh(mat, s) ==
  [ castShadow |-> TRUE, receiveShadow |-> TRUE,
    material |-> mat, positionY |-> 0, scaleY |-> s ]
bottomMesh(ms, mat, bottomOffset) ==
  [ castShadow |-> ms.bottom.castShadow, receiveShadow |-> ms.bottom.receiveShadow,
    material |-> mat, positionY |-> 0 - bottomOffset, scaleY |-> One ]
tabMesh(topOffset) ==
  [ castShadow |-> TRUE, receiveShadow |-> TRUE, positionY |-> topOffset ]

\* one render of EditableSodaCan: what it hands to the renderer
EditableSodaCan(minY, maxY, size, ms) ==
  LET s       == sy(size)
      h       == bodyHeight(minY, maxY)
      seamT   == seamTopLocal(s, h)
      seamB   == seamBottomLocal(s, h)
      core    == offsetCoreLocal(s, h)
      topOff  == topOffsetLocal(core, seamT)
      botOff  == bottomOffsetLocal(core, seamB)
      minW    == newMinWorld(minY, s)
      maxW    == newMaxWorld(maxY, s)
      seamTW  == seamTopWorld(seamT, s)
      seamBW  == seamBottomWorld(seamB, s)
      topMat  == makeMetalMat(<<topPlane(maxW, seamTW)>>, "top", ms)
      bodyMat == makeMetalMat(bodyPlanes(minW, maxW, seamTW, seamBW), "body", ms)
      botMat  == makeMetalMat(<<bottomPlane(minW, seamBW)>>, "bottom", ms)
  IN [ groupScale |-> << uniformScale, uniformScale, uniformScale >>,
       sy |-> s,
       seamTopLocal |-> seamT, seamBottomLocal |-> seamB,
       offsetCoreLocal |-> core,
       topOffsetLocal |-> topOff, bottomOffsetLocal |-> botOff,
       newMinWorld |-> minW, newMaxWorld |-> maxW,
       seamTopWorld |-> seamTW, seamBottomWorld |-> seamBW,
       top    |-> topMesh(ms, topMat, topOff),
       body   |-> bodyMesh(bodyMat, s),
       bottom |-> bottomMesh(ms, botMat, botOff),
       tab    |-> tabMesh(topOff) ]

-----------------------------------------------------------------------------
(* Page: settings other than the metal parts *)

\* "#fafafa" as 0xRRGGBB
HexFA == 16448250

\* angles are carried in degrees (the code holds degrees * PI / 180)
Deg(d) == Dec(d, 1)

\* [x, y, z]
Vec3(x, y, z) == << Dec(x, 1), Dec(y, 1), Dec(z, 1) >>

\* useState initializer of lightingSettings
DefaultLightingSettings ==
  [ exposure             |-> Dec(178, 100),
    envIntensity         |-> Dec(154, 100),
    ambientIntensity     |-> Dec(28, 10),
    fillLightIntensity   |-> Dec(50, 10),
    fillLightPosition    |-> Vec3(5, 0, 5),
    rimLightIntensity    |-> Dec(58, 10),
    rimLightPosition     |-> Vec3(-5, 0, 5),
    directionalIntensity |-> Dec(26, 10),
    directionalPosition  |-> Vec3(10, 10, 10),
    otherRotation        |-> Deg(195),
    otherStrength        |-> Dec(101, 100) ]

\* useState initializer of bar, repeated in resetToDefault
DefaultBar ==
  [ enabled   |-> TRUE,
    color     |-> HexFA,
    intensity |-> Dec(110, 100),
    width     |-> Dec(46, 10),
    height    |-> Dec(108, 10),
    distance  |-> Dec(35, 10),
    rotation  |-> Deg(90),
    y         |-> 0 - Dec(283, 100) ]

DefaultLabelRoughness == Dec(26, 100)
DefaultCameraFov == Dec(20, 1)
DefaultRotation == Vec3(0, 0, 0)

\* the values the lighting controls deliver, per key they can set (there is
\* no control for fillLightPosition or rimLightPosition): the default and
\* one other value, for otherStrength also 0
LightingValues ==
  [ exposure             |-> {Dec(178, 100), Dec(143, 100)},
    envIntensity         |-> {Dec(154, 100), Dec(232, 100)},
    ambientIntensity     |-> {Dec(28, 10), Dec(27, 10)},
    fillLightIntensity   |-> {Dec(50, 10), Dec(43, 10)},
    rimLightIntensity    |-> {Dec(58, 10), Dec(56, 10)},
    directionalIntensity |-> {Dec(26, 10), Dec(42, 10)},
    directionalPosition  |-> {Vec3(10, 10, 10), Vec3(-20, 10, 10)},
    otherRotation        |-> {Deg(195), Deg(130)},
    otherStrength        |-> {Dec(101, 100), Dec(161, 100), 0} ]

LightingKeys == DOMAIN LightingValues

\* the values the bar controls deliver, per key
BarValues ==
  [ enabled   |-> BOOLEAN,
    color     |-> {HexFA, HexWhite},
    intensity |-> {Dec(110, 100), Dec(200, 100)},
    width     |-> {Dec(46, 10), Dec(101, 10)},
    height    |-> {Dec(108, 10), Dec(111, 10)},
    distance  |-> {Dec(35, 10), Dec(36, 10)},
    rotation  |-> {Deg(90), Deg(360)},
    y         |-> {0 - Dec(283, 100), 0 - Dec(191, 100)} ]

BarKeys == DOMAIN BarValues

LabelRoughnessValues == {Dec(26, 100), Dec(21, 100)}
CameraFovValues == {Dec(20, 1), Dec(10, 1)}
\* one axis of the manual rotation, in degrees
RotationValues == {Deg(0), Deg(90)}
\* customImage: "" or the data URL of the uploaded file
CustomImages == {"", "data:image"}

-----------------------------------------------------------------------------
(* CustomLighting and RotatingEnvironment *)

\* intensity={settings.<light>Intensity * k}
lightIntensity(intensity, k) == Mul(intensity, k)

\* mutant: the ambient light left out of the shared multiplier
CustomLighting_AmbientUnscaled(settings) ==
  LET k == settings.otherStrength
  IN [ rotationY   |-> settings.otherRotation,
       ambient     |-> [ intensity |-> settings.ambientIntensity ],
       directional |-> [ position  |-> settings.directionalPosition,
                         intensity |-> Mul(settings.directionalIntensity, k) ],
       fill        |-> [ position  |-> settings.fillLightPosition,
                         intensity |-> Mul(settings.fillLightIntensity, k) ],
       rim         |-> [ position  |-> settings.rimLightPosition,
                         intensity |-> Mul(settings.rimLightIntensity, k) ] ]

\* one render of CustomLighting: the group and its four lights
CustomLighting(settings) ==
  LET k == settings.otherStrength
  IN [ rotationY   |-> settings.otherRotation,
       ambient     |-> [ intensity |-> lightIntensity(settings.ambientIntensity, k) ],
       directional |-> [ position  |-> settings.directionalPosition,
                         intensity |-> lightIntensity(settings.directionalIntensity, k) ],
       fill        |-> [ position  |-> settings.fillLightPosition,
                         intensity |-> lightIntensity(settings.fillLightIntensity, k) ],
       rim         |-> [ position  |-> settings.rimLightPosition,
                         intensity |-> lightIntensity(settings.rimLightIntensity, k) ] ]

\* <Environment> holding the Lightformer
barEnvironment(b) ==
  [ source    |-> "lightformer",
    rotationY |-> b.rotation,
    color     |-> b.color,
    intensity |-> b.intensity,
    position  |-> << 0, b.y, b.distance >>,
    scale     |-> << b.width, b.height, One >> ]

\* <Environment preset="studio" /> in its rotated group
studioEnvironment(otherRotation) ==
  [ source |-> "studio", rotationY |-> otherRotation ]

\* mutant: no early return, the studio backdrop is mounted with the bar too
RotatingEnvironment_Both(otherRotation, b) ==
  IF b.enabled THEN { barEnvironment(b), studioEnvironment(otherRotation) }
  ELSE { studioEnvironment(otherRotation) }

\* one render of RotatingEnvironment: the set of environment sources mounted
RotatingEnvironment(otherRotation, b) ==
  IF b.enabled THEN { barEnvironment(b) }
  ELSE { studioEnvironment(otherRotation) }

-----------------------------------------------------------------------------
(* Video recording *)

\* const duration = 6000 (ms)
duration == 6000

\* time between two animation frames of a recording, in ms
FrameTimes == {1500, 3000}

\* Math.min(elapsed / duration, 1)
progressOf(elapsed) ==
  LET q == (elapsed * One) \div duration IN IF q < One THEN q ELSE One

\* what document.querySelector("canvas") and the MediaRecorder set-up do:
\* no canvas found; captureStream / new MediaRecorder / start throws; or all
\* of them succeed
StartOutcomes == {"noCanvas", "throws", "started"}

-----------------------------------------------------------------------------
(* EditableSodaCan: the group's rotation, set by useFrame on every frame *)

\* the auto-rotation explored: the most radians a session adds to rotation.y
MaxSpin == 2

\* one component of group.rotation, held exactly as the sum of deg degrees
\* and rad radians (the code holds one number of radians)
Angle(deg, rad) == [deg |-> deg, rad |-> rad]

\* delta of useFrame: the seconds since the last frame
FrameDeltas == {Dec(1, 1), Dec(2, 1)}

\* (recordingProgress / 100) * Math.PI * 2
recordingAngle(progress) == Angle((progress * 360) \div 100, 0)

\* rotation.set(...rotation)
manualOrientation(rot) == << Angle(rot[1], 0), Angle(rot[2], 0), Angle(rot[3], 0) >>

\* mutant: auto-rotation tested before recording
useFrame_AutoFirst(group, delta, recording, progress, auto, rot) ==
  IF auto
    THEN [group EXCEPT ![2].rad = @ + Div(delta, Dec(2, 1))]
    ELSE IF recording
      THEN [group EXCEPT ![2] = recordingAngle(progress)]
      ELSE manualOrientation(rot)

\* the useFrame callback: group.rotation after a frame
useFrame(group, delta, recording, progress, auto, rot) ==
  IF recording
    THEN [group EXCEPT ![2] = recordingAngle(progress)]
    ELSE IF auto
      THEN [group EXCEPT ![2].rad = @ + Div(delta, Dec(2, 1))]
      ELSE manualOrientation(rot)

-----------------------------------------------------------------------------
(* The label texture *)

\* the value of a missing property
Undefined == "undefined"

\* utils/data.ts, with NEXT_PUBLIC_BASE_PATH unset
flavorTextures ==
  [ lemonLime          |-> "/labels/lemon-lime.png",
    grape              |-> "/labels/grape.png",
    strawberryLemonade |-> "/labels/strawberry.png",
    watermelon         |-> "/labels/watermelon.png" ]

\* useState<keyof typeof flavorTextures>("blackCherry"), never set again
selectedFlavor == "blackCherry"

\* obj[key] and obj.key
Member(obj, key) == IF key \in DOMAIN obj THEN obj[key] ELSE Undefined

\* a || b on strings and undefined
Or(a, b) == IF a \in {"", Undefined} THEN b ELSE a

\* customTexture={customImage || flavorTextures[selectedFlavor]}
customTexture(image) == Or(image, Member(flavorTextures, selectedFlavor))

\* useTexture(customTexture || flavorTextures.blackCherry): its argument
texture(image) == Or(customTexture(image), Member(flavorTextures, "blackCherry"))

-----------------------------------------------------------------------------
(* State *)

VARIABLES
  bodyMinY,          \* labelGeo.boundingBox.min.y, fixed by the loaded mesh
  bodyMaxY,          \* labelGeo.boundingBox.max.y
  canSize,           \* Page state
  metalSettings,     \* Page state
  lightingSettings,  \* Page state
  bar,               \* Page state
  labelRoughness,    \* Page state
  cameraFov,         \* Page state
  rotation,          \* Page state
  isAutoRotating,    \* Page state
  customImage,       \* Page state
  isRecording,       \* Page state
  recordingProgress, \* Page state
  loops,             \* the recordings started: each one's start time, its
                     \* MediaRecorder's state and whether its tick is scheduled
  now,               \* performance.now(), in ms
  scene,             \* the last render of EditableSodaCan
  groupRotation,     \* groupRef.current.rotation, as useFrame last left it
  lights,            \* the last render of CustomLighting
  environment,       \* the last render of RotatingEnvironment
  steps              \* handler calls so far (bookkeeping that bounds the session)

geometryVars == << bodyMinY, bodyMaxY >>
frameVars == << groupRotation >>
canVars == << canSize, metalSettings, scene >>
lightVars == << lightingSettings, bar, lights, environment >>
viewVars == << labelRoughness, cameraFov, rotation, isAutoRotating, customImage >>
recordingVars == << isRecording, recordingProgress, loops, now >>

vars == << geometryVars, frameVars, canVars, lightVars, viewVars, recordingVars,
          steps >>

\* the label band's extents the model loads: min < max, symmetric or not
Extents ==
  { e \in ((0 - MaxExtent)..0) \X (1..MaxExtent) : TRUE }

\* mutant: the render kept from before the update (a memo without its inputs)
Render_Stale(size, ms) == scene

\* <EditableSodaCan ... /> rendered by Page with the new state
Render(size, ms) == EditableSodaCan(bodyMinY, bodyMaxY, size, ms)

Init ==
  /\ \E e \in Extents :
       /\ bodyMinY = e[1] * One
       /\ bodyMaxY = e[2] * One
  /\ canSize = "355ml"
  /\ metalSettings = DefaultMetalSettings
  /\ lightingSettings = DefaultLightingSettings
  /\ bar = DefaultBar
  /\ labelRoughness = DefaultLabelRoughness
  /\ cameraFov = DefaultCameraFov
  /\ rotation = DefaultRotation
  /\ isAutoRotating = FALSE
  /\ customImage = ""
  /\ isRecording = FALSE
  /\ recordingProgress = 0
  /\ loops = << >>
  /\ now = 0
  /\ scene = EditableSodaCan(bodyMinY, bodyMaxY, canSize, metalSettings)
  /\ groupRotation = << Angle(0, 0), Angle(0, 0), Angle(0, 0) >>
  /\ lights = CustomLighting(lightingSettings)
  /\ environment = RotatingEnvironment(lightingSettings.otherRotation, bar)
  /\ steps = 0

\* a handler runs: one more call in the session
Step ==
  /\ steps < MaxSteps
  /\ steps' = steps + 1

\* onClick={() => setCanSize(size)}
setCanSize(size) ==
  /\ Step
  /\ canSize' = size
  /\ scene' = Render(size, metalSettings)
  /\ UNCHANGED << frameVars, geometryVars,
                  metalSettings, lightVars, viewVars, recordingVars >>

\* mutant: the key set in both parts
updateMetalSetting_BothParts(part, key, value) ==
  /\ Step
  /\ metalSettings' = [ p \in Parts |-> [metalSettings[p] EXCEPT ![key] = value] ]
  /\ scene' = Render(canSize, metalSettings')
  /\ UNCHANGED << frameVars, geometryVars,
                  canSize, lightVars, viewVars, recordingVars >>

\* setMetalSettings(prev => ({...prev, [part]: {...prev[part], [key]: value}}))
updateMetalSetting(part, key, value) ==
  /\ Step
  /\ metalSettings' = [metalSettings EXCEPT ![part][key] = value]
  /\ scene' = Render(canSize, metalSettings')
  /\ UNCHANGED << frameVars, geometryVars,
                  canSize, lightVars, viewVars, recordingVars >>

\* setLightingSettings(prev => ({...prev, [key]: value})), also written inline
\* in the sliders' onChange
updateLightingSetting(key, value) ==
  /\ Step
  /\ lightingSettings' = [lightingSettings EXCEPT ![key] = value]
  /\ lights' = CustomLighting(lightingSettings')
  /\ environment' = RotatingEnvironment(lightingSettings'.otherRotation, bar)
  /\ UNCHANGED << frameVars, geometryVars,
                  canVars, bar, viewVars, recordingVars >>

\* setBar(p => ({...p, [key]: value}))
setBar(key, value) ==
  /\ Step
  /\ bar' = [bar EXCEPT ![key] = value]
  /\ environment' = RotatingEnvironment(lightingSettings.otherRotation, bar')
  /\ UNCHANGED << frameVars, geometryVars,
                  canVars, lightingSettings, lights, viewVars,
                  recordingVars >>

setLabelRoughness(value) ==
  /\ Step
  /\ labelRoughness' = value
  /\ UNCHANGED << frameVars, geometryVars,
                  canVars, lightVars, cameraFov, rotation,
                  isAutoRotating, customImage, recordingVars >>

setCameraFov(value) ==
  /\ Step
  /\ cameraFov' = value
  /\ UNCHANGED << frameVars, geometryVars,
                  canVars, lightVars, labelRoughness, rotation,
                  isAutoRotating, customImage, recordingVars >>

\* the Manual Rotation sliders, shown when neither auto-rotating nor recording
setRotation(axis, value) ==
  /\ Step
  /\ ~isAutoRotating /\ ~isRecording
  /\ rotation' = [rotation EXCEPT ![axis] = value]
  /\ UNCHANGED << frameVars, geometryVars,
                  canVars, lightVars, labelRoughness, cameraFov,
                  isAutoRotating, customImage, recordingVars >>

\* the button is disabled while recording
toggleAutoRotation ==
  /\ Step
  /\ ~isRecording
  /\ isAutoRotating' = ~isAutoRotating
  /\ UNCHANGED << frameVars, geometryVars,
                  canVars, lightVars, labelRoughness, cameraFov,
                  rotation, customImage, recordingVars >>

\* reader.onload of handleImageUpload
handleImageUpload(image) ==
  /\ Step
  /\ customImage' = image
  /\ UNCHANGED << frameVars, geometryVars,
                  canVars, lightVars, labelRoughness, cameraFov,
                  rotation, isAutoRotating, recordingVars >>

\* the lightingSettings resetToDefault sets: prev with eight keys overwritten
resetLighting(prev) ==
  [ prev EXCEPT !.exposure = Dec(178, 100),
                !.envIntensity = Dec(154, 100),
                !.ambientIntensity = Dec(28, 10),
                !.fillLightIntensity = Dec(50, 10),
                !.rimLightIntensity = Dec(58, 10),
                !.directionalIntensity = Dec(26, 10),
                !.otherRotation = Deg(195),
                !.otherStrength = Dec(101, 100) ]

resetToDefault ==
  /\ Step
  /\ customImage' = ""
  /\ rotation' = Vec3(0, 0, 0)
  /\ isAutoRotating' = FALSE
  /\ isRecording' = FALSE
  /\ recordingProgress' = 0
  /\ labelRoughness' = Dec(26, 100)
  /\ canSize' = "355ml"
  /\ metalSettings' = DefaultMetalSettings
  /\ lightingSettings' = resetLighting(lightingSettings)
  /\ bar' = DefaultBar
  /\ cameraFov' = Dec(20, 1)
  /\ scene' = Render(canSize', metalSettings')
  /\ lights' = CustomLighting(lightingSettings')
  /\ environment' = RotatingEnvironment(lightingSettings'.otherRotation, bar')
  /\ UNCHANGED << frameVars, geometryVars,
                  loops, now >>

\* the button is disabled while isRecording
startVideoRecording(outcome) ==
  /\ Step
  /\ ~isRecording
  /\ IF outcome = "noCanvas"
       THEN UNCHANGED << isRecording, recordingProgress, loops >>
       ELSE /\ isRecording' = TRUE
            /\ recordingProgress' = 0
            /\ loops' = IF outcome = "started"
                          THEN Append(loops, [ start |-> now,
                                               recorder |-> "recording",
                                               scheduled |-> TRUE ])
                          ELSE loops
  /\ UNCHANGED << frameVars, geometryVars,
                  canVars, lightVars, viewVars, now >>

\* the animation-frame callback of recording i, dt ms after the last frame
tick(i, dt) ==
  /\ i \in 1..Len(loops)
  /\ loops[i].scheduled
  /\ now' = now + dt
  /\ LET progress == progressOf(now' - loops[i].start)
     IN IF progress < One
          THEN /\ recordingProgress' = progress * 100
               /\ UNCHANGED << isRecording, loops >>
          ELSE /\ loops' = [loops EXCEPT ![i].recorder = "inactive",
                                         ![i].scheduled = FALSE]
               /\ isRecording' = FALSE
               /\ recordingProgress' = 0
  /\ UNCHANGED << frameVars, geometryVars,
                  canVars, lightVars, viewVars, steps >>

\* a frame of the canvas: useFrame runs with the props of the last render
frame(delta) ==
  /\ groupRotation' = useFrame(groupRotation, delta, isRecording,
                               recordingProgress, isAutoRotating, rotation)
  /\ groupRotation'[2].rad <= MaxSpin * One
  /\ UNCHANGED << geometryVars, canVars, lightVars, viewVars, recordingVars,
                  steps >>

-----------------------------------------------------------------------------
(* Presets.  page.tsx has no preset code; the load is modelled from the    *)
(* README's "Presets (JSON)" section and the persisted-state contract:     *)
(* unknown fields are ignored, missing fields keep their current values.   *)

\* the fields of a preset record that name a setting
PresetFields ==
  { "canSize", "labelRoughness", "cameraFov", "metalSettings",
    "lightingSettings", "bar", "rotation", "isAutoRotating" }

\* the README's sample record, with "version" and one field no schema names
SamplePreset ==
  [ version          |-> 1,
    note             |-> "unrecognised",
    canSize          |-> "475ml",
    labelRoughness   |-> Dec(21, 100),
    cameraFov        |-> Dec(10, 1),
    metalSettings    |->
      [ top    |-> [ color |-> HexC7, brightness |-> Dec(135, 100),
                     roughness |-> Dec(48, 100), emissiveIntensity |-> Dec(1, 100),
                     castShadow |-> FALSE, receiveShadow |-> TRUE,
                     envMapIntensity |-> Dec(14, 10) ],
        bottom |-> [ color |-> HexB8, brightness |-> Dec(140, 100),
                     roughness |-> Dec(46, 100), emissiveIntensity |-> Dec(1, 100),
                     castShadow |-> FALSE, receiveShadow |-> TRUE,
                     envMapIntensity |-> Dec(15, 10) ] ],
    lightingSettings |->
      [ exposure             |-> Dec(143, 100),
        envIntensity         |-> Dec(232, 100),
        ambientIntensity     |-> Dec(27, 10),
        fillLightIntensity   |-> Dec(43, 10),
        fillLightPosition    |-> Vec3(5, 0, 5),
        rimLightIntensity    |-> Dec(56, 10),
        rimLightPosition     |-> Vec3(-5, 0, 5),
        directionalIntensity |-> Dec(42, 10),
        directionalPosition  |-> Vec3(1000, 500, 500),
        otherRotation        |-> Deg(130),
        otherStrength        |-> Dec(161, 100) ],
    bar              |->
      [ enabled |-> TRUE, color |-> HexFA, intensity |-> Dec(11, 10),
        width |-> Dec(101, 10), height |-> Dec(111, 10),
        distance |-> Dec(36, 10), rotation |-> Deg(360),
        y |-> 0 - Dec(191, 100) ],
    rotation         |-> Vec3(0, 0, 0),
    isAutoRotating   |-> TRUE ]

\* the records the model loads: the sample cut down to no setting, one
\* setting, all but one or all of them, with or without "version" and the
\* unrecognised field
PresetRecords ==
  { [ f \in D \cup E |-> SamplePreset[f] ] :
      D \in { F \in SUBSET PresetFields :
                Cardinality(F) \in {0, 1, Cardinality(PresetFields) - 1,
                                    Cardinality(PresetFields)} },
      E \in { {}, {"version", "note"} } }

\* the initial value of each setting
DefaultSettings ==
  [ canSize          |-> "355ml",
    labelRoughness   |-> DefaultLabelRoughness,
    cameraFov        |-> DefaultCameraFov,
    metalSettings    |-> DefaultMetalSettings,
    lightingSettings |-> DefaultLightingSettings,
    bar              |-> DefaultBar,
    rotation         |-> DefaultRotation,
    isAutoRotating   |-> FALSE ]

\* mutant: replace, not merge: a missing field falls back to its default
merged_Replace(record, field, live) ==
  IF field \in DOMAIN record THEN record[field] ELSE DefaultSettings[field]

\* the value a load gives a setting: the record's, or the live one kept
merged(record, field, live) ==
  IF field \in DOMAIN record THEN record[field] ELSE live

\* Load JSON
loadPreset(record) ==
  /\ Step
  /\ canSize' = merged(record, "canSize", canSize)
  /\ labelRoughness' = merged(record, "labelRoughness", labelRoughness)
  /\ cameraFov' = merged(record, "cameraFov", cameraFov)
  /\ metalSettings' = merged(record, "metalSettings", metalSettings)
  /\ lightingSettings' = merged(record, "lightingSettings", lightingSettings)
  /\ bar' = merged(record, "bar", bar)
  /\ rotation' = merged(record, "rotation", rotation)
  /\ isAutoRotating' = merged(record, "isAutoRotating", isAutoRotating)
  /\ scene' = Render(canSize', metalSettings')
  /\ lights' = CustomLighting(lightingSettings')
  /\ environment' = RotatingEnvironment(lightingSettings'.otherRotation, bar')
  /\ UNCHANGED << frameVars, geometryVars,
                  customImage, recordingVars >>

\* the can: size and metal parts
Next ==
  \/ \E size \in CanSizes : setCanSize(size)
  \/ \E part \in Parts, key \in MetalKeys :
       \E value \in MetalValues[key] : updateMetalSetting(part, key, value)
  \/ resetToDefault

Spec == Init /\ [][Next]_vars

\* the lighting rig, the bar and the view settings
NextSettings ==
  \/ \E key \in LightingKeys :
       \E value \in LightingValues[key] : updateLightingSetting(key, value)
  \/ \E key \in BarKeys : \E value \in BarValues[key] : setBar(key, value)
  \/ \E value \in LabelRoughnessValues : setLabelRoughness(value)
  \/ \E value \in CameraFovValues : setCameraFov(value)
  \/ resetToDefault

SpecSettings == Init /\ [][NextSettings]_vars

\* recording: the buttons of the Controls section, Reset, the size buttons
\* and the animation frames of the recordings
NextRecording ==
  \/ \E outcome \in StartOutcomes : startVideoRecording(outcome)
  \/ \E i \in 1..Len(loops) : \E dt \in FrameTimes : tick(i, dt)
  \/ toggleAutoRotation
  \/ \E size \in CanSizes : setCanSize(size)
  \/ resetToDefault

SpecRecording == Init /\ [][NextRecording]_vars

\* some scheduled animation-frame callback of a recording runs
Tick == \E i \in 1..Len(loops) : \E dt \in FrameTimes : tick(i, dt)

\* recording, with the browser's guarantee that a callback handed to
\* requestAnimationFrame is eventually called
SpecRecordingFair == SpecRecording /\ WF_vars(Tick)

\* rotation: the Controls buttons, the Manual Rotation sliders, Reset, the frames of
\* the canvas and the animation frames of the recordings, on the mesh whose
\* label band spans -1..1 (no frame reads the geometry)
InitFrame == Init /\ bodyMinY = 0 - One /\ bodyMaxY = One

NextFrame ==
  \/ \E outcome \in StartOutcomes : startVideoRecording(outcome)
  \/ Tick
  \/ toggleAutoRotation
  \/ \E axis \in 1..3 : \E value \in RotationValues : setRotation(axis, value)
  \/ \E delta \in FrameDeltas : frame(delta)
  \/ resetToDefault

SpecFrame == InitFrame /\ [][NextFrame]_vars

\* the metal controls between edits of the label roughness, on the mesh whose
\* label band spans -1..1
NextMetal ==
  \/ \E part \in Parts, key \in MetalKeys :
       \E value \in MetalValues[key] : updateMetalSetting(part, key, value)
  \/ \E value \in LabelRoughnessValues : setLabelRoughness(value)

SpecMetal == InitFrame /\ [][NextMetal]_vars

\* the label: uploads, the label roughness, the size buttons and Reset
NextLabel ==
  \/ \E image \in CustomImages : handleImageUpload(image)
  \/ \E value \in LabelRoughnessValues : setLabelRoughness(value)
  \/ \E size \in CanSizes : setCanSize(size)
  \/ resetToDefault

SpecLabel == Init /\ [][NextLabel]_vars

\* presets: loads between edits of two keys of the bar, on the mesh whose label band
\* spans -1..1 (no load reads the geometry)
InitPreset == Init /\ bodyMinY = 0 - One /\ bodyMaxY = One

NextPreset ==
  \/ \E record \in PresetRecords : loadPreset(record)
  \/ \E key \in {"enabled", "width"} :
       \E value \in BarValues[key] : setBar(key, value)

SpecPreset == InitPreset /\ [][NextPreset]_vars

-----------------------------------------------------------------------------
(* Properties *)

Asymmetric == bodyMinY + bodyMaxY # 0

\* the height at which a clip plane cuts: the y whose signed distance is 0
Boundary(plane) == 0 - plane.normalY * plane.constant

\* C1: at the 355ml preset every seam epsilon, local and world, is 0 and so
\* are topOffsetLocal and bottomOffsetLocal; the top cap, the bottom cap and
\* the tab sit at vertical offset 0, whatever the label band's extent.
C1_BaseProfileZero ==
  canSize = "355ml" =>
    /\ scene.sy = One
    /\ scene.seamTopLocal = 0 /\ scene.seamBottomLocal = 0
    /\ scene.seamTopWorld = 0 /\ scene.seamBottomWorld = 0
    /\ scene.topOffsetLocal = 0 /\ scene.bottomOffsetLocal = 0
    /\ scene.top.positionY = 0
    /\ scene.bottom.positionY = 0
    /\ scene.tab.positionY = 0

\* 355ml selected again after 475ml, on an extent that is not symmetric
C1_Witness ==
  /\ canSize = "355ml" /\ steps >= 2 /\ Asymmetric
  /\ scene.topOffsetLocal = 0 /\ scene.tab.positionY = 0

\* C2: at the 475ml preset (stretch 1.2) topOffsetLocal and bottomOffsetLocal
\* are both strictly positive and strictly below
\* offsetCore = ((max - min) / 2) * (stretch - 1).
C2_StretchedOffsets ==
  canSize = "475ml" =>
    /\ scene.sy = Dec(12, 10)
    /\ scene.offsetCoreLocal = Mul((bodyMaxY - bodyMinY) \div 2, scene.sy - One)
    /\ 0 < scene.topOffsetLocal /\ scene.topOffsetLocal < scene.offsetCoreLocal
    /\ 0 < scene.bottomOffsetLocal
    /\ scene.bottomOffsetLocal < scene.offsetCoreLocal

C2_Witness ==
  /\ canSize = "475ml" /\ Asymmetric
  /\ scene.bottomOffsetLocal < scene.topOffsetLocal
  /\ scene.topOffsetLocal < scene.offsetCoreLocal

\* C3: moving the top cap up by offsetCore puts its seam edge on the top edge
\* of the body as the body mesh is scaled (max + offsetCore = max * stretch),
\* and moving the bottom cap down by offsetCore puts its seam edge on the
\* body's bottom edge (min - offsetCore = min * stretch), for every extent.
C3_CapsFlush ==
  /\ bodyMaxY + scene.offsetCoreLocal = Mul(bodyMaxY, scene.body.scaleY)
  /\ bodyMinY - scene.offsetCoreLocal = Mul(bodyMinY, scene.body.scaleY)

\* heights around every clip boundary of the scene
SampleHeights ==
  LET bs == { scene.newMaxWorld - scene.seamTopWorld,
              scene.newMaxWorld + scene.seamTopWorld,
              scene.newMinWorld - scene.seamBottomWorld,
              scene.newMinWorld + scene.seamBottomWorld,
              scene.newMinWorld, scene.newMaxWorld, 0 }
  IN UNION { {b - 1, b, b + 1} : b \in bs }

\* C4: the top cap keeps exactly y >= bodyMaxWorld - topSeamWorld, the bottom
\* cap exactly y <= bodyMinWorld + bottomSeamWorld, the body exactly
\* bodyMinWorld - bottomSeamWorld <= y <= bodyMaxWorld + topSeamWorld; the
\* top and bottom materials carry one plane each, the body material two.
C4_ClipHalfSpaces ==
  LET topP  == scene.top.material.clippingPlanes
      botP  == scene.bottom.material.clippingPlanes
      bodyP == scene.body.material.clippingPlanes
  IN /\ Len(topP) = 1 /\ Len(botP) = 1 /\ Len(bodyP) = 2
     /\ \A y \in SampleHeights :
          /\ Keeps(topP[1], y) <=> y >= scene.newMaxWorld - scene.seamTopWorld
          /\ Keeps(botP[1], y) <=> y <= scene.newMinWorld + scene.seamBottomWorld
          /\ (\A i \in 1..2 : Keeps(bodyP[i], y)) <=>
               /\ scene.newMinWorld - scene.seamBottomWorld <= y
               /\ y <= scene.newMaxWorld + scene.seamTopWorld

\* stretched can: every plane is off the raw body boundary
C4_Witness ==
  /\ canSize = "475ml"
  /\ scene.seamTopWorld > 0 /\ scene.seamBottomWorld > scene.seamTopWorld
  /\ Boundary(scene.top.material.clippingPlanes[1]) < scene.newMaxWorld
  /\ Boundary(scene.body.material.clippingPlanes[1]) < scene.newMinWorld

\* C5: the body's lower "keep above" boundary is never above the bottom cap's
\* "keep below" boundary: the band where both are drawn has width >= 0.
C5_OverlapBandNonNegative ==
  Boundary(scene.body.material.clippingPlanes[1])
    <= Boundary(scene.bottom.material.clippingPlanes[1])

\* stretched can: the band has positive width
C5_Witness ==
  /\ canSize = "475ml"
  /\ Boundary(scene.body.material.clippingPlanes[1])
       < Boundary(scene.bottom.material.clippingPlanes[1])

\* the scenario of C6: extent {-1.0, 1.0} at stretch 1.2 (uniformScale is 2.0)
C6_Scenario ==
  /\ bodyMinY = 0 - Dec(1, 1) /\ bodyMaxY = Dec(1, 1)
  /\ canSize = "475ml" /\ uniformScale = Dec(2, 1)

\* C6 as stated: in the scenario offsetCore = 0.2, newMinWorld = -2.0,
\* newMaxWorld = 2.0, world epsTop = 0.012 and world epsBottom = 0.028.
C6_Original ==
  C6_Scenario =>
    /\ scene.offsetCoreLocal = Dec(2, 10)
    /\ scene.newMinWorld = 0 - Dec(2, 1)
    /\ scene.newMaxWorld = Dec(2, 1)
    /\ scene.seamTopWorld = Dec(12, 1000)
    /\ scene.seamBottomWorld = Dec(28, 1000)

\* C6 amended: in the scenario offsetCore = 0.2, newMinWorld = -2.4,
\* newMaxWorld = 2.4, world epsTop = 0.0144 and world epsBottom = 0.0336
\* (the world values carry the stretch 1.2 as well as the uniform scale).
C6_Amended ==
  C6_Scenario =>
    /\ scene.offsetCoreLocal = Dec(2, 10)
    /\ scene.newMinWorld = 0 - Dec(24, 10)
    /\ scene.newMaxWorld = Dec(24, 10)
    /\ scene.seamTopWorld = Dec(144, 10000)
    /\ scene.seamBottomWorld = Dec(336, 10000)

C6_Witness == C6_Scenario /\ scene.sy = Dec(12, 10) /\ steps >= 1

\* C7: the body material's brightness, roughness, emissive intensity and
\* environment-map intensity are each (top + bottom) / 2 of the cap settings,
\* out-of-range values included (brightness shows as the factor on the body's
\* base color).
C7_BodyIsMean ==
  LET t == metalSettings.top
      b == metalSettings.bottom
      m == scene.body.material
      base == Color(HexBB)
  IN /\ 2 * m.roughness = t.roughness + b.roughness
     /\ 2 * m.emissiveIntensity = t.emissiveIntensity + b.emissiveIntensity
     /\ 2 * m.envMapIntensity = t.envMapIntensity + b.envMapIntensity
     /\ 2 * m.color.r = base.r * (t.brightness + b.brightness)
     /\ 2 * m.color.g = base.g * (t.brightness + b.brightness)
     /\ 2 * m.color.b = base.b * (t.brightness + b.brightness)

\* a negative roughness and an emissive intensity beyond the slider, unequal caps
C7_Witness ==
  /\ metalSettings.top.roughness < 0
  /\ metalSettings.bottom.roughness > 0
  /\ metalSettings.bottom.emissiveIntensity > Dec(2, 1)
  /\ metalSettings.top.emissiveIntensity < Dec(2, 1)
  /\ scene.body.material.roughness
       = (metalSettings.top.roughness + metalSettings.bottom.roughness) \div 2

\* C8: the body material's base color is the mean of the top-cap and the
\* bottom-cap color (so two caps of one color give the body that color),
\* scaled by the body's brightness.
C8_BodyColorIsMean ==
  LET tc == Color(metalSettings.top.color)
      bc == Color(metalSettings.bottom.color)
      br == Mean(metalSettings.top.brightness, metalSettings.bottom.brightness)
      m  == scene.body.material
  IN /\ 2 * m.color.r = (tc.r + bc.r) * br
     /\ 2 * m.color.g = (tc.g + bc.g) * br
     /\ 2 * m.color.b = (tc.b + bc.b) * br

\* C9: the body mesh casts and receives shadows in every state, whatever the
\* caps' flags are; each cap's mesh flags are its settings.
C9_BodyShadowPolicy ==
  /\ scene.body.castShadow = TRUE /\ scene.body.receiveShadow = TRUE
  /\ scene.top.castShadow = metalSettings.top.castShadow
  /\ scene.top.receiveShadow = metalSettings.top.receiveShadow
  /\ scene.bottom.castShadow = metalSettings.bottom.castShadow
  /\ scene.bottom.receiveShadow = metalSettings.bottom.receiveShadow

\* both caps receive no shadow and one casts: the body still does both
C9_Witness ==
  /\ metalSettings.top.receiveShadow = FALSE
  /\ metalSettings.bottom.receiveShadow = FALSE
  /\ metalSettings.top.castShadow # metalSettings.bottom.castShadow
  /\ scene.body.castShadow /\ scene.body.receiveShadow

\* metalSettings with the two caps exchanged
Swapped(ms) == [top |-> ms.bottom, bottom |-> ms.top]

\* C10: composing the body from (top = A, bottom = B) and from (top = B,
\* bottom = A) gives the same body material in every averaged field, and the
\* body's shadow flags are the fixed policy both times.
C10_SwapSymmetric ==
  LET other == Render(canSize, Swapped(metalSettings))
      m == scene.body.material
      o == other.body.material
  IN /\ o.roughness = m.roughness
     /\ o.emissiveIntensity = m.emissiveIntensity
     /\ o.envMapIntensity = m.envMapIntensity
     /\ o.color = m.color
     /\ other.body.castShadow = TRUE /\ other.body.receiveShadow = TRUE
     /\ scene.body.castShadow = TRUE /\ scene.body.receiveShadow = TRUE

\* the caps differ in every averaged field and in their shadow flags
C10_Witness ==
  /\ metalSettings.top.roughness # metalSettings.bottom.roughness
  /\ metalSettings.top.brightness # metalSettings.bottom.brightness
  /\ metalSettings.top.envMapIntensity # metalSettings.bottom.envMapIntensity
  /\ metalSettings.top.emissiveIntensity # metalSettings.bottom.emissiveIntensity
  /\ metalSettings.top.castShadow # metalSettings.bottom.castShadow
  /\ metalSettings.top.color # metalSettings.bottom.color

\* C11: after any sequence of size selections and settings updates the seam
\* geometry, clip planes, offsets, scales and material parameters handed to
\* the renderer are those computed from the current preset and settings
\* alone; back at the initial inputs the outputs are the initial outputs.
C11_OutputsFromCurrentInputs ==
  /\ scene = EditableSodaCan(bodyMinY, bodyMaxY, canSize, metalSettings)
  /\ (canSize = "355ml" /\ metalSettings = DefaultMetalSettings) =>
       scene = EditableSodaCan(bodyMinY, bodyMaxY, "355ml", DefaultMetalSettings)

\* the initial inputs again after at least three handler calls, none of them
\* needed to get there
C11_Witness ==
  /\ steps >= 3
  /\ canSize = "355ml" /\ metalSettings = DefaultMetalSettings
  /\ scene.sy = One /\ scene.topOffsetLocal = 0

\* C18: the world values used for clipping are the local values times the
\* stretch times the uniform scale, and the uniform scale is 2.0 on all
\* three axes for both presets.
C18_WorldValues ==
  /\ scene.newMinWorld = Mul(Mul(bodyMinY, scene.sy), Dec(2, 1))
  /\ scene.newMaxWorld = Mul(Mul(bodyMaxY, scene.sy), Dec(2, 1))
  /\ scene.seamTopWorld = Mul(Mul(scene.seamTopLocal, scene.sy), Dec(2, 1))
  /\ scene.seamBottomWorld = Mul(Mul(scene.seamBottomLocal, scene.sy), Dec(2, 1))
  /\ scene.groupScale = << Dec(2, 1), Dec(2, 1), Dec(2, 1) >>
  /\ scene.sy = IF canSize = "475ml" THEN Dec(12, 10) ELSE One

\* stretched can: stretch and uniform scale both show in the world values
C18_Witness ==
  /\ canSize = "475ml" /\ Asymmetric
  /\ scene.newMaxWorld > Mul(bodyMaxY, Dec(2, 1))
  /\ scene.seamBottomWorld > Mul(scene.seamBottomLocal, Dec(2, 1))

\* C19: topOffsetLocal >= 0 and bottomOffsetLocal >= 0, and topSeamWorld and
\* bottomSeamWorld are each strictly less than half the stretched body height
\* in world units, (max - min) * stretch * uniformScale / 2.
C19_SeamsBelowHalfHeight ==
  LET half == Mul(Mul(bodyMaxY - bodyMinY, scene.sy), scene.groupScale[2]) \div 2
  IN /\ bodyMinY < bodyMaxY
     /\ scene.topOffsetLocal >= 0
     /\ scene.bottomOffsetLocal >= 0
     /\ scene.seamTopWorld < half
     /\ scene.seamBottomWorld < half

\* stretched can: both seams are positive and the bottom one is the larger
C19_Witness ==
  /\ canSize = "475ml"
  /\ 0 < scene.seamTopWorld /\ scene.seamTopWorld < scene.seamBottomWorld
  /\ scene.bottomOffsetLocal > 0

\* C12: each of the four lights has its own intensity setting times the one
\* shared multiplier otherStrength, all four turn with the one group rotation
\* otherRotation and none has a multiplier or rotation of its own;
\* otherStrength = 0 turns all four off.
C12_SharedMultiplier ==
  LET k == lightingSettings.otherStrength
  IN /\ lights.ambient.intensity = Mul(lightingSettings.ambientIntensity, k)
     /\ lights.directional.intensity = Mul(lightingSettings.directionalIntensity, k)
     /\ lights.fill.intensity = Mul(lightingSettings.fillLightIntensity, k)
     /\ lights.rim.intensity = Mul(lightingSettings.rimLightIntensity, k)
     /\ lights.rotationY = lightingSettings.otherRotation
     /\ DOMAIN lights.ambient = {"intensity"}
     /\ \A l \in {"directional", "fill", "rim"} :
          DOMAIN lights[l] = {"position", "intensity"}
     /\ k = 0 => \A l \in {"ambient", "directional", "fill", "rim"} :
                   lights[l].intensity = 0

\* strength 1.61 and rotation 130 degrees: the rim light 5.8 shines at 9.338
C12_Witness ==
  /\ lightingSettings.otherStrength = Dec(161, 100)
  /\ lightingSettings.otherRotation = Deg(130)
  /\ lights.rotationY = Deg(130)
  /\ lights.rim.intensity = Dec(9338, 1000)
  /\ lights.ambient.intensity = Dec(4508, 1000)

\* C13: exactly one environment source is mounted in every state: the
\* rectangular highlight if and only if bar.enabled, the studio backdrop if
\* and only if not.
C13_OneEnvironment ==
  /\ Cardinality(environment) = 1
  /\ bar.enabled <=> \E e \in environment : e.source = "lightformer"
  /\ ~bar.enabled <=> \E e \in environment : e.source = "studio"

\* the bar switched off with every other setting still at its default
C13_Witness ==
  /\ ~bar.enabled
  /\ [bar EXCEPT !.enabled = TRUE] = DefaultBar
  /\ lightingSettings = DefaultLightingSettings
  /\ environment = { studioEnvironment(Deg(195)) }

\* the settings C14 names
Settings ==
  << canSize, labelRoughness, cameraFov, metalSettings, lightingSettings, bar,
     rotation, isAutoRotating >>

\* their values in the initial state
InitialSettings ==
  << "355ml", DefaultLabelRoughness, DefaultCameraFov, DefaultMetalSettings,
     DefaultLightingSettings, DefaultBar, DefaultRotation, FALSE >>

\* C14: Reset to Default leaves every setting (can size, label roughness,
\* camera FOV, both metal parts, all lighting settings with the light
\* positions, the bar, the manual rotation, the auto-rotation flag) at its
\* value in the initial state.
C14_ResetRestoresInitial ==
  [][resetToDefault => Settings' = InitialSettings]_vars

\* C17: the initial state has the documented defaults: label roughness 0.21,
\* camera FOV 10, bar enabled with intensity 1.10, y -1.91, distance 3.6,
\* width 10.1, height 11.1, other-lights strength 1.61 and rotation 130
\* degrees, ambient 2.7, fill 4.3, rim 5.6, directional 4.2, base environment
\* intensity 2.32, top metal #c7c7c7 and bottom metal #b8b8b8.
C17_DocumentedDefaults ==
  steps = 0 =>
    /\ labelRoughness = Dec(21, 100)
    /\ cameraFov = Dec(10, 1)
    /\ bar.enabled /\ bar.intensity = Dec(110, 100)
    /\ bar.y = 0 - Dec(191, 100) /\ bar.distance = Dec(36, 10)
    /\ bar.width = Dec(101, 10) /\ bar.height = Dec(111, 10)
    /\ lightingSettings.otherStrength = Dec(161, 100)
    /\ lightingSettings.otherRotation = Deg(130)
    /\ lightingSettings.ambientIntensity = Dec(27, 10)
    /\ lightingSettings.fillLightIntensity = Dec(43, 10)
    /\ lightingSettings.rimLightIntensity = Dec(56, 10)
    /\ lightingSettings.directionalIntensity = Dec(42, 10)
    /\ lightingSettings.envIntensity = Dec(232, 100)
    /\ metalSettings.top.color = HexC7
    /\ metalSettings.bottom.color = HexB8

\* C16: a start that fails (no canvas found, or the stream or the recorder
\* cannot be created) does not leave the application in recording mode:
\* isRecording is false after it.
C16_FailedStartNotRecording ==
  [][(\E outcome \in {"noCanvas", "throws"} : startVideoRecording(outcome))
       => ~isRecording']_vars

\* C20: whenever isRecording is false, recordingProgress is 0, under every
\* interleaving of the handlers with the recordings' animation frames.
C20_IdleProgressZero == ~isRecording => recordingProgress = 0

\* the live value of each setting a preset can name
LiveSettings ==
  [ canSize          |-> canSize,
    labelRoughness   |-> labelRoughness,
    cameraFov        |-> cameraFov,
    metalSettings    |-> metalSettings,
    lightingSettings |-> lightingSettings,
    bar              |-> bar,
    rotation         |-> rotation,
    isAutoRotating   |-> isAutoRotating ]

\* the whole sample with "version" and its unrecognised field
RecordWithExtra ==
  [ f \in PresetFields \cup {"version", "note"} |-> SamplePreset[f] ]

\* C15: a load merges: a record without bar leaves the live bar as it was,
\* likewise every other setting the record does not name, and the settings
\* it names take its values; a record with an unrecognised extra field
\* loads like any other and changes no setting it does not name.
C15_LoadMerges ==
  [][ /\ \A record \in PresetRecords :
           loadPreset(record) =>
             /\ \A f \in PresetFields \ DOMAIN record :
                  LiveSettings'[f] = LiveSettings[f]
             /\ \A f \in PresetFields \cap DOMAIN record :
                  LiveSettings'[f] = record[f]
      /\ steps < MaxSteps => ENABLED loadPreset(RecordWithExtra) ]_vars

\* a record naming labelRoughness but not bar was loaded, and the bar has
\* the one edit made by hand
C15_Witness ==
  /\ labelRoughness = SamplePreset.labelRoughness
  /\ cameraFov = DefaultCameraFov
  /\ bar = [DefaultBar EXCEPT !.width = Dec(101, 10)]

\* the recordings whose MediaRecorder is running
Running == { i \in 1..Len(loops) : loops[i].recorder = "recording" }

\* the recordings whose tick is scheduled and will write recordingProgress
Scheduled == { i \in 1..Len(loops) : loops[i].scheduled }

\* C21: at most one recording exists at any time: at most one MediaRecorder
\* is running and at most one tick loop is scheduled, whatever buttons
\* (Reset to Default included) were pressed.
C21_AtMostOneRecording ==
  /\ Cardinality(Running) <= 1
  /\ Cardinality(Scheduled) <= 1

\* C22: once isRecording is true, with animation frames firing and no
\* further user action needed, a state is reached in which every recorder
\* has been stopped, isRecording is false and recordingProgress is 0.
C22_RecordingFinishes ==
  isRecording ~> (~isRecording /\ recordingProgress = 0 /\ Running = {})

\* C23: while a recording lasts, recordingProgress stays within [0, 100]
\* and no tick lowers it, whatever the user did during the recording.
C23_ProgressMonotone ==
  [][ /\ recordingProgress' >= 0
      /\ recordingProgress' <= 100 * One
      /\ (Tick /\ isRecording /\ isRecording') =>
           recordingProgress' >= recordingProgress ]_vars

\* group.rotation after the next frame, of delta seconds
NextOrientation(delta) ==
  useFrame(groupRotation, delta, isRecording, recordingProgress,
           isAutoRotating, rotation)

\* the Y rotation advanced by 0.5 * delta radians, X and Z left alone
Advanced(group, delta) ==
  [group EXCEPT ![2] = Angle(@.deg, @.rad + delta \div 2)]

\* the orientation of every frame follows the priority recording, then
\* auto-rotation, then the manual rotation
FramePriority ==
  \A delta \in FrameDeltas :
    frame(delta) =>
      IF isRecording
        THEN groupRotation'[2] = Angle((recordingProgress \div 100) * 360, 0)
        ELSE IF isAutoRotating
          THEN groupRotation' = Advanced(groupRotation, delta)
          ELSE groupRotation' = manualOrientation(rotation)

\* a tick ends a recording
Finishes == Tick /\ isRecording /\ ~isRecording'

\* the auto-rotation is switched off
StopsAuto == toggleAutoRotation /\ isAutoRotating

\* C24 as stated: the priority, and the frame after auto-rotation stops or
\* after a recording finishes puts the can at the manual rotation.
C24_Original ==
  [][ /\ FramePriority
      /\ (StopsAuto \/ Finishes) =>
           \A delta \in FrameDeltas :
             NextOrientation(delta)' = manualOrientation(rotation)' ]_vars

\* C24 amended: the priority; the frame after auto-rotation stops puts the
\* can at the manual rotation; the frame after a recording finishes does so
\* when auto-rotation is off, and otherwise advances the Y rotation from the
\* angle the recording left.
C24_Amended ==
  [][ /\ FramePriority
      /\ StopsAuto =>
           \A delta \in FrameDeltas :
             NextOrientation(delta)' = manualOrientation(rotation)'
      /\ Finishes =>
           \A delta \in FrameDeltas :
             NextOrientation(delta)' =
               IF isAutoRotating'
                 THEN Advanced(groupRotation, delta)'
                 ELSE manualOrientation(rotation)' ]_vars

\* a recording made with auto-rotation on has finished and a later frame
\* advanced the Y rotation from the angle the recording left
C24_Witness ==
  /\ ~isRecording
  /\ isAutoRotating
  /\ Running = {} /\ loops # << >>
  /\ groupRotation[2].deg > 0
  /\ groupRotation[2].rad > 0

\* C25: the clip planes are horizontal (normals along world Y) and no
\* reachable state has the can tilted about X or Z, by the manual rotation or
\* in the group's rotation.
C25_NoTilt ==
  /\ rotation[1] = 0 /\ rotation[3] = 0
  /\ groupRotation[1] = Angle(0, 0) /\ groupRotation[3] = Angle(0, 0)

\* C26: the texture handed to the label material is always defined: it is
\* the uploaded image or the selected flavor's path, and the selected flavor
\* is a key of flavorTextures.
C26_TextureDefined ==
  /\ texture(customImage) # Undefined
  /\ customImage = "" => selectedFlavor \in DOMAIN flavorTextures

\* the settings that are not metal settings, and the recording flags
NonMetal ==
  << canSize, lightingSettings, bar, labelRoughness, cameraFov, rotation,
     isAutoRotating, customImage, isRecording, recordingProgress >>

\* what updateMetalSetting(part, key, value) may change: the named key of
\* the named part, and nothing else
OnlyKeyChanged(part, key) ==
  /\ \A p \in Parts :
       /\ DOMAIN metalSettings'[p] = DOMAIN metalSettings[p]
       /\ \A k \in DOMAIN metalSettings[p] :
            << p, k >> # << part, key >> =>
              metalSettings'[p][k] = metalSettings[p][k]
  /\ NonMetal' = NonMetal

\* C27: updateMetalSetting(part, key, value) gives the named key of the
\* named part the value and changes nothing else: not another key of that
\* part, not a key of the other part, not a setting that is not a metal
\* setting; this holds after any earlier updates.  (Written "effect or not
\* this call", which is "this call implies the effect".)
C27_UpdateChangesOneKey ==
  [][ \A part \in Parts, key \in MetalKeys :
        \A value \in MetalValues[key] :
          \/ metalSettings'[part][key] = value /\ OnlyKeyChanged(part, key)
          \/ ~updateMetalSetting(part, key, value) ]_vars

\* two updates were made, to different keys of the top, and the bottom and
\* the top's other keys are as they started
C27_Witness ==
  /\ metalSettings.top.roughness = Dec(46, 100)
  /\ metalSettings.top.color = HexC7
  /\ metalSettings = [DefaultMetalSettings EXCEPT !.top.roughness = Dec(46, 100),
                                                  !.top.color = HexC7]

====
